---- MODULE Spec2Model ----
(***************************************************************************)
(* A model of the two building blocks of the lockfree crate:               *)
(*   src/src/hazard.rs  deferred reclamation guarded by one global counter *)
(*   src/src/spsc.rs    the single-producer single-consumer channel        *)
(* Every atomic access (SeqCst / Acquire / Release) is one step; the       *)
(* steps of different threads interleave arbitrarily.                      *)
(***************************************************************************)
EXTENDS Integers, Sequences, FiniteSets, TLC

(***************************************************************************)
(* Bounds of the model.                                                    *)
(***************************************************************************)
\* number of worker threads using the reclamation API
NWorkers == 2
\* number of addresses ever stored in the hazard pointer
MaxAddr == 2
\* largest value of the counter: critical sections open at once, nested in
\* one worker or spread over several
MaxOpen == 2

\* number of calls of Sender::send
MaxSend == 3

Workers == 1 .. NWorkers
Addrs == 1 .. MaxAddr
\* the null address
Null == 0
\* the closed tag: (null_mut() as usize | 1)
Tag == 1
\* Node addresses: #[repr(align(2))] keeps the lowest bit of every node's
\* address zero. The k-th allocation of the channel is at address 2k.
Nodes == {2 * k : k \in 1 .. MaxSend + 1}

VARIABLES
    \* ------------------------------------------------ hazard.rs
    DELETION_STATUS,   \* static DELETION_STATUS: AtomicUsize
    ptr,               \* HazardPtr.ptr of the one shared hazard pointer
    nextAddr,          \* the allocator: the next address never handed out
    queue,             \* LOCAL_DELETION of each worker: sequence of addresses
    pc,                \* position of each worker
    op,                \* the API call the worker's delete() runs for
    stack,             \* open critical sections of each worker, innermost
                       \* last: the address handed to the section's visitor
    status,            \* value of the worker's last DELETION_STATUS.load
    cur,               \* the address whose dropper the worker is executing
    owned,             \* addresses the worker unlinked and did not schedule
    dcount,            \* how many times each address's dropper was called
    \* history of the reclamation calls
    scheduled,         \* per worker, the addresses it passed to later_drop
    blockers           \* per address whose dropper has not returned, the
                       \* workers whose outermost critical section, open
                       \* when it was scheduled, is still open

VARIABLES
    \* ------------------------------------------------ spsc.rs
    val,               \* Node.val of each node: <<>> is None, <<v>> is Some(v)
    next,              \* Node.next of each node: Null, a node or Tag
    allocated,         \* the nodes handed out by the allocator
    freed,             \* the nodes given back to the allocator
    back,              \* Sender.back
    front,             \* Receiver.front
    spc,               \* position of the sender's thread
    snode,             \* send's local nnptr
    sarg,              \* the argument of the send in progress or last made
    sres,              \* result of the last send
    rpc,               \* position of the receiver's thread
    rval,              \* recv's local val
    rres,              \* result of the last recv
    fault,             \* set when a freed node is accessed or freed again
    \* history of the channel
    sent,              \* the values whose send returned Ok, in order
    received,          \* the values returned by recv, in order
    tagBy,             \* the endpoint whose teardown wrote the closed tag
    sstart,            \* whether the receiver's teardown was over when the
                       \* send in progress (or last made) began
    rstart,            \* what held when the recv in progress (or last made)
                       \* began
    rsteps,            \* the steps the recv in progress (or last made) has
                       \* taken
    disconnected       \* whether a recv that returned NoSender (.recv), a
                       \* send that returned NoRecv (.send), came before the
                       \* call in progress (or last made)

cvars == <<val, next, allocated, freed, back, front, spc, snode, sarg, sres,
           rpc, rval, rres, fault, sent, received, tagBy, sstart, rstart,
           rsteps, disconnected>>

hvars == <<DELETION_STATUS, ptr, nextAddr, queue, pc, op, stack, status, cur,
           owned, dcount, scheduled, blockers>>

\* value of `status` when no load result is live; a result v is <<v>>
NoRead == <<>>

HInit ==
    /\ DELETION_STATUS = 0
    /\ ptr = 1
    /\ nextAddr = 2
    /\ queue = [w \in Workers |-> <<>>]
    /\ pc = [w \in Workers |-> "run"]
    /\ op = [w \in Workers |-> "none"]
    /\ stack = [w \in Workers |-> <<>>]
    /\ status = [w \in Workers |-> NoRead]
    /\ cur = [w \in Workers |-> Null]
    /\ owned = [w \in Workers |-> {}]
    /\ dcount = [a \in Addrs |-> 0]
    /\ scheduled = [w \in Workers |-> {}]
    /\ blockers = [a \in Addrs |-> {}]

\* The workers that are inside a critical section.
InCritical == {w \in Workers : stack[w] # <<>>}

(***************************************************************************)
(* critical(exec): fetch_add, exec, fetch_sub.                             *)
(***************************************************************************)
\* CriticalEnter without the fetch_add: an open section does not hold the
\* counter non-zero.
CriticalEnterNoCount(w, k) ==
    /\ pc[w] = "run"
    /\ DELETION_STATUS < MaxOpen
    /\ DELETION_STATUS' = DELETION_STATUS
    /\ stack' = [stack EXCEPT ![w] = Append(@, Null)]
    /\ pc' = [pc EXCEPT ![w] = k]
    /\ UNCHANGED <<cvars, ptr, nextAddr, queue, op, status, cur, owned, dcount,
                   scheduled, blockers>>

\* DELETION_STATUS.fetch_add(1, SeqCst), entering the section of
\* critical(body) (k = "run": the body starts at once), of HazardPtr::load
\* (k = "load") or of HazardPtr::swap (k = "swap"), which first perform
\* their atomic access on the pointer.
CriticalEnter(w, k) ==
    /\ pc[w] = "run"
    /\ DELETION_STATUS < MaxOpen
    /\ DELETION_STATUS' = DELETION_STATUS + 1
    /\ stack' = [stack EXCEPT ![w] = Append(@, Null)]
    /\ pc' = [pc EXCEPT ![w] = k]
    /\ UNCHANGED <<cvars, ptr, nextAddr, queue, op, status, cur, owned, dcount,
                   scheduled, blockers>>

\* CriticalExit without the fetch_sub: the section closes and the counter
\* stays where it was.
CriticalExitNoCount(w) ==
    /\ pc[w] = "run"
    /\ Len(stack[w]) > 0
    /\ DELETION_STATUS' = DELETION_STATUS
    /\ stack' = [stack EXCEPT ![w] = SubSeq(@, 1, Len(@) - 1)]
    /\ blockers' = IF Len(stack[w]) = 1
                   THEN [a \in Addrs |-> blockers[a] \ {w}]
                   ELSE blockers
    /\ UNCHANGED <<cvars, ptr, nextAddr, queue, pc, op, status, cur, owned,
                   dcount, scheduled>>

\* DELETION_STATUS.fetch_sub(1, SeqCst): exec has returned.
CriticalExit(w) ==
    /\ pc[w] = "run"
    /\ Len(stack[w]) > 0
    /\ DELETION_STATUS' = DELETION_STATUS - 1
    /\ stack' = [stack EXCEPT ![w] = SubSeq(@, 1, Len(@) - 1)]
    /\ blockers' = IF Len(stack[w]) = 1
                   THEN [a \in Addrs |-> blockers[a] \ {w}]
                   ELSE blockers
    /\ UNCHANGED <<cvars, ptr, nextAddr, queue, pc, op, status, cur, owned,
                   dcount, scheduled>>

\* HazardPtr::load: inside the section, self.ptr.load(ord); the visitor then
\* runs with the address read.
Load(w) ==
    /\ pc[w] = "load"
    /\ stack' = [stack EXCEPT ![w][Len(stack[w])] = ptr]
    /\ pc' = [pc EXCEPT ![w] = "run"]
    /\ UNCHANGED <<cvars, DELETION_STATUS, ptr, nextAddr, queue, op, status,
                   cur, owned, dcount, scheduled, blockers>>

\* The address a caller stores: a newly allocated object, or null once the
\* model's addresses are used up.
NewAddr == IF nextAddr <= MaxAddr THEN nextAddr ELSE Null

\* HazardPtr::swap: inside the section, self.ptr.swap(new, ord); the visitor
\* receives the previous address, which is from now on unlinked and the
\* caller's to schedule.
Swap(w) ==
    /\ pc[w] = "swap"
    /\ ptr' = NewAddr
    /\ nextAddr' = IF NewAddr = Null THEN nextAddr ELSE nextAddr + 1
    /\ owned' = [owned EXCEPT ![w] = IF ptr = Null THEN @ ELSE @ \cup {ptr}]
    /\ pc' = [pc EXCEPT ![w] = "run"]
    /\ UNCHANGED <<cvars, DELETION_STATUS, queue, op, stack, status, cur,
                   dcount, scheduled, blockers>>

(***************************************************************************)
(* GarbageQueue                                                            *)
(***************************************************************************)
\* add with push_front in place of push_back.
addFront(q, a) == <<a>> \o q

\* GarbageQueue::add: push_back.
add(q, a) == Append(q, a)

\* Where delete() returns to: the worker's teardown is then over,
\* try_delete_local goes on to return Ok(()), later_drop returns to the
\* worker's code.
DeleteReturnsTo(o) ==
    CASE o = "drop" -> "done"
      [] o = "try_delete_local" -> "ret_ok"
      [] OTHER -> "run"

\* DeleteStep with the item read but left at the front of the queue
\* (front() in place of pop_front()).
DeleteStepNoPop(w) ==
    /\ pc[w] = "delete"
    /\ IF queue[w] # <<>>
       THEN /\ cur' = [cur EXCEPT ![w] = Head(queue[w])]
            /\ dcount' = [dcount EXCEPT ![Head(queue[w])] = @ + 1]
            /\ pc' = [pc EXCEPT ![w] = "dropper"]
            /\ UNCHANGED <<queue, op, status>>
       ELSE /\ pc' = [pc EXCEPT ![w] = DeleteReturnsTo(op[w])]
            /\ op' = [op EXCEPT ![w] = "none"]
            /\ status' = [status EXCEPT ![w] = NoRead]
            /\ UNCHANGED <<queue, cur, dcount>>
    /\ UNCHANGED <<cvars, DELETION_STATUS, ptr, nextAddr, stack, owned,
                   scheduled, blockers>>

\* One turn of the loop of GarbageQueue::delete: pop_front and call the
\* dropper on the item, or leave the loop when the queue is empty. delete()
\* returns into the call that started it (DeleteReturnsTo).
DeleteStep(w) ==
    /\ pc[w] = "delete"
    /\ IF queue[w] # <<>>
       THEN /\ queue' = [queue EXCEPT ![w] = Tail(@)]
            /\ cur' = [cur EXCEPT ![w] = Head(queue[w])]
            /\ dcount' = [dcount EXCEPT ![Head(queue[w])] = @ + 1]
            /\ pc' = [pc EXCEPT ![w] = "dropper"]
            /\ UNCHANGED <<op, status>>
       ELSE /\ pc' = [pc EXCEPT ![w] = DeleteReturnsTo(op[w])]
            /\ op' = [op EXCEPT ![w] = "none"]
            /\ status' = [status EXCEPT ![w] = NoRead]
            /\ UNCHANGED <<queue, cur, dcount>>
    /\ UNCHANGED <<cvars, DELETION_STATUS, ptr, nextAddr, stack, owned,
                   scheduled, blockers>>

\* (garbage.dropper)(garbage.ptr) returns.
DropperReturn(w) ==
    /\ pc[w] = "dropper"
    /\ cur' = [cur EXCEPT ![w] = Null]
    /\ pc' = [pc EXCEPT ![w] = "delete"]
    /\ blockers' = [blockers EXCEPT ![cur[w]] = {}]
    /\ UNCHANGED <<cvars, DELETION_STATUS, ptr, nextAddr, queue, op, stack,
                   status, owned, dcount, scheduled>>

(***************************************************************************)
(* later_drop, try_delete_local, Drop for GarbageQueue                     *)
(***************************************************************************)
\* later_drop, first half: queue.add(Garbage {ptr, dropper}). The caller
\* keeps later_drop's contract: a is an address it unlinked and has not
\* scheduled before.
LaterDropAdd(w, a) ==
    /\ pc[w] = "run"
    /\ a \in owned[w]
    /\ owned' = [owned EXCEPT ![w] = @ \ {a}]
    /\ queue' = [queue EXCEPT ![w] = add(@, a)]
    /\ scheduled' = [scheduled EXCEPT ![w] = @ \cup {a}]
    /\ blockers' = [blockers EXCEPT ![a] = InCritical]
    /\ op' = [op EXCEPT ![w] = "later_drop"]
    /\ pc' = [pc EXCEPT ![w] = "check"]
    /\ UNCHANGED <<cvars, DELETION_STATUS, ptr, nextAddr, stack, status, cur,
                   dcount>>

\* LaterDropCheck with the load's result ignored: delete() always runs.
LaterDropCheckAlways(w) ==
    /\ pc[w] = "check"
    /\ status' = [status EXCEPT ![w] = <<DELETION_STATUS>>]
    /\ pc' = [pc EXCEPT ![w] = "delete"]
    /\ UNCHANGED <<cvars, DELETION_STATUS, ptr, nextAddr, queue, op, stack,
                   cur, owned, dcount, scheduled, blockers>>

\* later_drop, second half: if DELETION_STATUS.load(SeqCst) == 0 then
\* queue.delete().
LaterDropCheck(w) ==
    /\ pc[w] = "check"
    /\ IF DELETION_STATUS = 0
       THEN /\ status' = [status EXCEPT ![w] = <<DELETION_STATUS>>]
            /\ pc' = [pc EXCEPT ![w] = "delete"]
            /\ op' = op
       ELSE /\ status' = [status EXCEPT ![w] = NoRead]
            /\ pc' = [pc EXCEPT ![w] = "run"]
            /\ op' = [op EXCEPT ![w] = "none"]
    /\ UNCHANGED <<cvars, DELETION_STATUS, ptr, nextAddr, queue, stack, cur,
                   owned, dcount, scheduled, blockers>>

\* TryDeleteLocal that returns Ok(()) on a zero read without calling
\* delete().
TryDeleteLocalNoDelete(w) ==
    /\ pc[w] = "run"
    /\ IF DELETION_STATUS = 0
       THEN /\ status' = [status EXCEPT ![w] = NoRead]
            /\ pc' = [pc EXCEPT ![w] = "ret_ok"]
            /\ op' = op
       ELSE /\ status' = [status EXCEPT ![w] = NoRead]
            /\ pc' = [pc EXCEPT ![w] = "ret_err"]
            /\ op' = op
    /\ UNCHANGED <<cvars, DELETION_STATUS, ptr, nextAddr, queue, stack, cur,
                   owned, dcount, scheduled, blockers>>

\* TryDeleteLocal with the comparison inverted (!= 0 for == 0).
TryDeleteLocalInverted(w) ==
    /\ pc[w] = "run"
    /\ IF DELETION_STATUS # 0
       THEN /\ status' = [status EXCEPT ![w] = <<DELETION_STATUS>>]
            /\ pc' = [pc EXCEPT ![w] = "delete"]
            /\ op' = [op EXCEPT ![w] = "try_delete_local"]
       ELSE /\ status' = [status EXCEPT ![w] = NoRead]
            /\ pc' = [pc EXCEPT ![w] = "ret_err"]
            /\ op' = op
    /\ UNCHANGED <<cvars, DELETION_STATUS, ptr, nextAddr, queue, stack, cur,
                   owned, dcount, scheduled, blockers>>

\* try_delete_local: if DELETION_STATUS.load(SeqCst) == 0 then
\* queue.delete() and Ok(()), else Err(()). The result is the worker's
\* position: "ret_err" here, "ret_ok" when delete() is over.
TryDeleteLocal(w) ==
    /\ pc[w] = "run"
    /\ IF DELETION_STATUS = 0
       THEN /\ status' = [status EXCEPT ![w] = <<DELETION_STATUS>>]
            /\ pc' = [pc EXCEPT ![w] = "delete"]
            /\ op' = [op EXCEPT ![w] = "try_delete_local"]
       ELSE /\ status' = [status EXCEPT ![w] = NoRead]
            /\ pc' = [pc EXCEPT ![w] = "ret_err"]
            /\ op' = op
    /\ UNCHANGED <<cvars, DELETION_STATUS, ptr, nextAddr, queue, stack, cur,
                   owned, dcount, scheduled, blockers>>

\* try_delete_local returns Ok(()) or Err(()) to the worker's code.
TryDeleteReturn(w) ==
    /\ pc[w] \in {"ret_ok", "ret_err"}
    /\ pc' = [pc EXCEPT ![w] = "run"]
    /\ UNCHANGED <<cvars, DELETION_STATUS, ptr, nextAddr, queue, op, stack,
                   status, cur, owned, dcount, scheduled, blockers>>

\* The worker's thread ends: its thread-local GarbageQueue is dropped. A
\* thread ends outside any critical section.
ThreadExit(w) ==
    /\ pc[w] = "run"
    /\ stack[w] = <<>>
    /\ pc' = [pc EXCEPT ![w] = "spin"]
    /\ op' = [op EXCEPT ![w] = "drop"]
    /\ UNCHANGED <<cvars, DELETION_STATUS, ptr, nextAddr, queue, stack, status,
                   cur, owned, dcount, scheduled, blockers>>

\* DropSpin with the comparison inverted: the loop spins while the counter
\* is zero (== 0 for != 0).
DropSpinInverted(w) ==
    /\ pc[w] = "spin"
    /\ IF DELETION_STATUS # 0
       THEN /\ status' = [status EXCEPT ![w] = <<DELETION_STATUS>>]
            /\ pc' = [pc EXCEPT ![w] = "delete"]
       ELSE /\ status' = [status EXCEPT ![w] = NoRead]
            /\ UNCHANGED pc
    /\ UNCHANGED <<cvars, DELETION_STATUS, ptr, nextAddr, queue, op, stack,
                   cur, owned, dcount, scheduled, blockers>>

\* DropSpin without the wait: delete() after the first load, whatever it read.
DropSpinNoWait(w) ==
    /\ pc[w] = "spin"
    /\ status' = [status EXCEPT ![w] = <<DELETION_STATUS>>]
    /\ pc' = [pc EXCEPT ![w] = "delete"]
    /\ UNCHANGED <<cvars, DELETION_STATUS, ptr, nextAddr, queue, op, stack,
                   cur, owned, dcount, scheduled, blockers>>

\* Drop for GarbageQueue: while DELETION_STATUS.load(SeqCst) != 0 {}, then
\* self.delete(). One step is one load.
DropSpin(w) ==
    /\ pc[w] = "spin"
    /\ IF DELETION_STATUS = 0
       THEN /\ status' = [status EXCEPT ![w] = <<DELETION_STATUS>>]
            /\ pc' = [pc EXCEPT ![w] = "delete"]
       ELSE /\ status' = [status EXCEPT ![w] = NoRead]
            /\ UNCHANGED pc
    /\ UNCHANGED <<cvars, DELETION_STATUS, ptr, nextAddr, queue, op, stack,
                   cur, owned, dcount, scheduled, blockers>>

(***************************************************************************)
(* spsc.rs: channel, Sender, Receiver                                      *)
(***************************************************************************)
\* channel(): one node with val: None and a null link; both cursors on it.
CInit ==
    /\ val = [n \in Nodes |-> <<>>]
    /\ next = [n \in Nodes |-> Null]
    /\ allocated = {2}
    /\ freed = {}
    /\ back = 2
    /\ front = 2
    /\ spc = "idle"
    /\ snode = Null
    /\ sarg = 0
    /\ sres = <<"none">>
    /\ rpc = "idle"
    /\ rval = <<>>
    /\ rres = <<"none">>
    /\ fault = {}
    /\ sent = <<>>
    /\ received = <<>>
    /\ tagBy = "none"
    /\ sstart = FALSE
    /\ rstart = [nsent |-> 0, nrecv |-> 0, sdone |-> FALSE, front |-> 2,
                 val |-> [n \in Nodes |-> <<>>],
                 next |-> [n \in Nodes |-> Null],
                 allocated |-> {2}, freed |-> {}]
    /\ rsteps = 0
    /\ disconnected = [recv |-> FALSE, send |-> FALSE]

\* next & 1: the tag bit of a link.
TagBit(p) == p % 2
\* next & !1: the link with the tag bit cleared.
Untagged(p) == p - (p % 2)

\* The faults of an access to node n: a node is not touched once freed.
Touch(n) == IF n \in freed THEN {"use_after_free"} ELSE {}
\* The faults of freeing node n (OwnedAlloc::from_raw dropped).
Free(n) == IF n \in freed THEN {"double_free"} ELSE {}

\* The next address of the allocator.
NewNode == 2 * (Cardinality(allocated) + 1)

\* Sender::send, first half: OwnedAlloc::new(Node {val: Some(v), next: null}).
\* The values sent are 1, 2, ... so that each is told from the others.
SendAlloc ==
    /\ spc = "idle"
    /\ sarg < MaxSend
    /\ sarg' = sarg + 1
    /\ snode' = NewNode
    /\ allocated' = allocated \cup {NewNode}
    /\ val' = [val EXCEPT ![NewNode] = <<sarg + 1>>]
    /\ sres' = <<"none">>
    /\ sstart' = (rpc = "dropped")
    /\ spc' = "cas"
    /\ disconnected' = [disconnected EXCEPT
                           !.send = @ \/ sres[1] = "NoRecv"]
    /\ UNCHANGED <<hvars, next, freed, back, front, rpc, rval, rres, fault,
                   sent, received, tagBy, rstart, rsteps>>

\* SendCas with a plain store in place of the compare_and_swap: the new node
\* is linked whatever the old link was.
SendCasStore ==
    /\ spc = "cas"
    /\ fault' = fault \cup Touch(back)
    /\ next' = [next EXCEPT ![back] = snode]
    /\ back' = snode
    /\ sres' = <<"Ok">>
    /\ sent' = Append(sent, sarg)
    /\ snode' = Null
    /\ spc' = "idle"
    /\ UNCHANGED <<hvars, val, freed, allocated, front, sarg, rpc, rval, rres,
                   received, tagBy, sstart, rstart, rsteps, disconnected>>

\* SendCas that, when its compare_and_swap fails, puts the link back to null
\* before it returns NoRecv.
SendCasResetsLink ==
    /\ spc = "cas"
    /\ fault' = fault \cup Touch(back)
    /\ IF next[back] = Null
       THEN /\ next' = [next EXCEPT ![back] = snode]
            /\ back' = snode
            /\ sres' = <<"Ok">>
            /\ sent' = Append(sent, sarg)
            /\ UNCHANGED <<val, freed>>
       ELSE /\ sres' = <<"NoRecv", val[snode][1]>>
            /\ val' = [val EXCEPT ![snode] = <<>>]
            /\ freed' = freed \cup {snode}
            /\ next' = [next EXCEPT ![back] = Null]
            /\ UNCHANGED <<back, sent>>
    /\ snode' = Null
    /\ spc' = "idle"
    /\ UNCHANGED <<hvars, allocated, front, sarg, rpc, rval, rres, received,
                   tagBy, sstart, rstart, rsteps, disconnected>>

\* Sender::send, second half: compare_and_swap(null, nnptr, Release) on the
\* link of the node at back. Old link null: back moves to the new node and
\* Ok(()). Otherwise the new node is taken apart again and its value is
\* returned in NoRecv.
SendCas ==
    /\ spc = "cas"
    /\ fault' = fault \cup Touch(back)
    /\ IF next[back] = Null
       THEN /\ next' = [next EXCEPT ![back] = snode]
            /\ back' = snode
            /\ sres' = <<"Ok">>
            /\ sent' = Append(sent, sarg)
            /\ UNCHANGED <<val, freed>>
       ELSE /\ sres' = <<"NoRecv", val[snode][1]>>
            /\ val' = [val EXCEPT ![snode] = <<>>]
            /\ freed' = freed \cup {snode}
            /\ UNCHANGED <<next, back, sent>>
    /\ snode' = Null
    /\ spc' = "idle"
    /\ UNCHANGED <<hvars, allocated, front, sarg, rpc, rval, rres, received,
                   tagBy, sstart, rstart, rsteps, disconnected>>

\* SenderDrop that writes no tag: the sender just goes away.
SenderDropNoTag ==
    /\ spc = "idle"
    /\ spc' = "dropped"
    /\ UNCHANGED <<hvars, val, next, allocated, freed, back, front, snode,
                   sarg, sres, rpc, rval, rres, fault, sent, received, tagBy,
                   sstart, rstart, rsteps, disconnected>>

\* SenderDrop that frees the node at back whatever its compare_and_swap
\* returned.
SenderDropFreesAlways ==
    /\ spc = "idle"
    /\ spc' = "dropped"
    /\ freed' = freed \cup {back}
    /\ fault' = fault \cup Touch(back) \cup Free(back)
    /\ IF next[back] = Null
       THEN /\ next' = [next EXCEPT ![back] = Tag]
            /\ tagBy' = "sender"
       ELSE UNCHANGED <<next, tagBy>>
    /\ UNCHANGED <<hvars, val, allocated, back, front, snode, sarg, sres, rpc,
                   rval, rres, sent, received, sstart, rstart, rsteps,
                   disconnected>>

\* SenderDrop that frees no node: the compare_and_swap's result is dropped.
SenderDropNoFree ==
    /\ spc = "idle"
    /\ spc' = "dropped"
    /\ fault' = fault \cup Touch(back)
    /\ IF next[back] = Null
       THEN /\ next' = [next EXCEPT ![back] = Tag]
            /\ tagBy' = "sender"
       ELSE UNCHANGED <<next, tagBy>>
    /\ UNCHANGED <<hvars, val, allocated, freed, back, front, snode, sarg,
                   sres, rpc, rval, rres, sent, received, sstart, rstart,
                   rsteps, disconnected>>

\* Drop for Sender: compare_and_swap(null, tag, Release) on the link of the
\* node at back; if the old link was not null, the node at back is freed.
SenderDrop ==
    /\ spc = "idle"
    /\ spc' = "dropped"
    /\ IF next[back] = Null
       THEN /\ next' = [next EXCEPT ![back] = Tag]
            /\ tagBy' = "sender"
            /\ fault' = fault \cup Touch(back)
            /\ UNCHANGED freed
       ELSE /\ freed' = freed \cup {back}
            /\ fault' = fault \cup Touch(back) \cup Free(back)
            /\ UNCHANGED <<next, tagBy>>
    /\ UNCHANGED <<hvars, val, allocated, back, front, snode, sarg, sres, rpc,
                   rval, rres, sent, received, sstart, rstart, rsteps,
                   disconnected>>

\* What holds when a recv begins: how many values were sent and received,
\* whether the sender's teardown is over, and the cursor and the nodes.
RecvBegins ==
    [nsent |-> Len(sent), nrecv |-> Len(received), sdone |-> (spc = "dropped"),
     front |-> front, val |-> val, next |-> next, allocated |-> allocated,
     freed |-> freed]

\* RecvTake that reads the payload and leaves it in the node (a copy in
\* place of take()).
RecvTakeNoClear ==
    /\ rpc \in {"idle", "loop"}
    /\ fault' = fault \cup Touch(front)
    /\ rval' = val[front]
    /\ rpc' = IF val[front] # <<>> THEN "some" ELSE "none"
    /\ IF rpc = "idle"
       THEN /\ rres' = <<"none">>
            /\ rstart' = RecvBegins
       ELSE UNCHANGED <<rres, rstart>>
    /\ rsteps' = IF rpc = "idle" THEN 1 ELSE rsteps + 1
    /\ disconnected' = IF rpc = "idle"
                       THEN [disconnected EXCEPT
                                !.recv = @ \/ rres = <<"NoSender">>]
                       ELSE disconnected
    /\ UNCHANGED <<hvars, val, next, allocated, freed, back, front, spc,
                   snode, sarg, sres, sent, received, tagBy, sstart>>

\* RecvTake that looks at the link first and reports NoSender as soon as the
\* closed tag is on it, whatever the payload.
RecvTakeClosedFirst ==
    /\ rpc \in {"idle", "loop"}
    /\ fault' = fault \cup Touch(front)
    /\ IF TagBit(next[front]) = 1
       THEN /\ rres' = <<"NoSender">>
            /\ rpc' = "idle"
            /\ UNCHANGED <<rval, val>>
            /\ rstart' = IF rpc = "idle" THEN RecvBegins ELSE rstart
       ELSE /\ rval' = val[front]
            /\ val' = [val EXCEPT ![front] = <<>>]
            /\ rpc' = IF val[front] # <<>> THEN "some" ELSE "none"
            /\ IF rpc = "idle"
               THEN /\ rres' = <<"none">>
                    /\ rstart' = RecvBegins
               ELSE UNCHANGED <<rres, rstart>>
    /\ rsteps' = IF rpc = "idle" THEN 1 ELSE rsteps + 1
    /\ disconnected' = IF rpc = "idle"
                       THEN [disconnected EXCEPT
                                !.recv = @ \/ rres = <<"NoSender">>]
                       ELSE disconnected
    /\ UNCHANGED <<hvars, next, allocated, freed, back, front, spc, snode,
                   sarg, sres, sent, received, tagBy, sstart>>

\* Receiver::recv, top of the loop: node.val.take() on the node at front.
\* The first turn of the loop is where the call begins.
RecvTake ==
    /\ rpc \in {"idle", "loop"}
    /\ fault' = fault \cup Touch(front)
    /\ rval' = val[front]
    /\ val' = [val EXCEPT ![front] = <<>>]
    /\ rpc' = IF val[front] # <<>> THEN "some" ELSE "none"
    /\ IF rpc = "idle"
       THEN /\ rres' = <<"none">>
            /\ rstart' = RecvBegins
       ELSE UNCHANGED <<rres, rstart>>
    /\ rsteps' = IF rpc = "idle" THEN 1 ELSE rsteps + 1
    /\ disconnected' = IF rpc = "idle"
                       THEN [disconnected EXCEPT
                                !.recv = @ \/ rres = <<"NoSender">>]
                       ELSE disconnected
    /\ UNCHANGED <<hvars, next, allocated, freed, back, front, spc, snode,
                   sarg, sres, sent, received, tagBy, sstart>>

\* Receiver::recv, Some(val): node.next.load(Acquire); if the link without
\* its tag bit is a node, the node at front is freed and front moves on;
\* Ok(val).
RecvLoadSome ==
    /\ rpc = "some"
    /\ IF Untagged(next[front]) # Null
       THEN /\ freed' = freed \cup {front}
            /\ front' = Untagged(next[front])
            /\ fault' = fault \cup Touch(front) \cup Free(front)
       ELSE /\ fault' = fault \cup Touch(front)
            /\ UNCHANGED <<freed, front>>
    /\ rres' = <<"Ok", rval[1]>>
    /\ received' = Append(received, rval[1])
    /\ rval' = <<>>
    /\ rpc' = "idle"
    /\ rsteps' = rsteps + 1
    /\ UNCHANGED <<hvars, val, next, allocated, back, spc, snode, sarg, sres,
                   sent, tagBy, sstart, rstart, disconnected>>

\* RecvLoadNone with the two errors exchanged: a null link is NoSender, the
\* closed tag is NoMessage.
RecvLoadNoneSwapped ==
    /\ rpc = "none"
    /\ IF TagBit(next[front]) = 0
       THEN IF next[front] # Null
            THEN /\ freed' = freed \cup {front}
                 /\ front' = next[front]
                 /\ fault' = fault \cup Touch(front) \cup Free(front)
                 /\ rpc' = "loop"
                 /\ UNCHANGED rres
            ELSE /\ rres' = <<"NoSender">>
                 /\ rpc' = "idle"
                 /\ fault' = fault \cup Touch(front)
                 /\ UNCHANGED <<freed, front>>
       ELSE /\ rres' = <<"NoMessage">>
            /\ rpc' = "idle"
            /\ fault' = fault \cup Touch(front)
            /\ UNCHANGED <<freed, front>>
    /\ rsteps' = rsteps + 1
    /\ UNCHANGED <<hvars, val, next, allocated, back, spc, snode, sarg, sres,
                   rval, sent, received, tagBy, sstart, rstart, disconnected>>

\* RecvLoadNone that waits for a message: on a null link it goes round the
\* loop again.
RecvLoadNoneWaits ==
    /\ rpc = "none"
    /\ IF TagBit(next[front]) = 0
       THEN IF next[front] # Null
            THEN /\ freed' = freed \cup {front}
                 /\ front' = next[front]
                 /\ fault' = fault \cup Touch(front) \cup Free(front)
                 /\ rpc' = "loop"
                 /\ UNCHANGED rres
            ELSE /\ rpc' = "loop"
                 /\ fault' = fault \cup Touch(front)
                 /\ UNCHANGED <<rres, freed, front>>
       ELSE /\ rres' = <<"NoSender">>
            /\ rpc' = "idle"
            /\ fault' = fault \cup Touch(front)
            /\ UNCHANGED <<freed, front>>
    /\ rsteps' = rsteps + 1
    /\ UNCHANGED <<hvars, val, next, allocated, back, spc, snode, sarg, sres,
                   rval, sent, received, tagBy, sstart, rstart, disconnected>>

\* Receiver::recv, None: node.next.load(Acquire). Tag bit clear: a node frees
\* the node at front, moves front on and loops; null is NoMessage. Tag bit
\* set: NoSender.
RecvLoadNone ==
    /\ rpc = "none"
    /\ IF TagBit(next[front]) = 0
       THEN IF next[front] # Null
            THEN /\ freed' = freed \cup {front}
                 /\ front' = next[front]
                 /\ fault' = fault \cup Touch(front) \cup Free(front)
                 /\ rpc' = "loop"
                 /\ UNCHANGED rres
            ELSE /\ rres' = <<"NoMessage">>
                 /\ rpc' = "idle"
                 /\ fault' = fault \cup Touch(front)
                 /\ UNCHANGED <<freed, front>>
       ELSE /\ rres' = <<"NoSender">>
            /\ rpc' = "idle"
            /\ fault' = fault \cup Touch(front)
            /\ UNCHANGED <<freed, front>>
    /\ rsteps' = rsteps + 1
    /\ UNCHANGED <<hvars, val, next, allocated, back, spc, snode, sarg, sres,
                   rval, sent, received, tagBy, sstart, rstart, disconnected>>

\* ReceiverDrop that frees the node at front in every turn, also when its
\* compare_and_swap wrote the tag.
ReceiverDropFreesLast ==
    /\ rpc \in {"idle", "dropping"}
    /\ freed' = freed \cup {front}
    /\ fault' = fault \cup Touch(front) \cup Free(front)
    /\ IF next[front] = Null
       THEN /\ next' = [next EXCEPT ![front] = Tag]
            /\ tagBy' = "receiver"
            /\ rpc' = "dropped"
            /\ UNCHANGED front
       ELSE /\ IF TagBit(next[front]) = 1
               THEN /\ rpc' = "dropped"
                    /\ UNCHANGED front
               ELSE /\ rpc' = "dropping"
                    /\ front' = next[front]
            /\ UNCHANGED <<next, tagBy>>
    /\ UNCHANGED <<hvars, val, allocated, back, spc, snode, sarg, sres, rval,
                   rres, sent, received, sstart, rstart, rsteps, disconnected>>

\* ReceiverDrop with a swap in place of the compare_and_swap: the tag is
\* stored whatever the old link was.
ReceiverDropStore ==
    /\ rpc \in {"idle", "dropping"}
    /\ next' = [next EXCEPT ![front] = Tag]
    /\ IF next[front] = Null
       THEN /\ tagBy' = "receiver"
            /\ fault' = fault \cup Touch(front)
            /\ rpc' = "dropped"
            /\ UNCHANGED <<freed, front>>
       ELSE /\ freed' = freed \cup {front}
            /\ fault' = fault \cup Touch(front) \cup Free(front)
            /\ IF TagBit(next[front]) = 1
               THEN /\ rpc' = "dropped"
                    /\ UNCHANGED front
               ELSE /\ rpc' = "dropping"
                    /\ front' = next[front]
            /\ UNCHANGED tagBy
    /\ UNCHANGED <<hvars, val, allocated, back, spc, snode, sarg, sres, rval,
                   rres, sent, received, sstart, rstart, rsteps, disconnected>>

\* Drop for Receiver, one turn of its loop: compare_and_swap(null, tag,
\* AcqRel) on the link of the node at front. Old link null: done. Otherwise
\* the node at front is freed; done if the old link has the tag bit, else
\* front moves to the old link.
ReceiverDrop ==
    /\ rpc \in {"idle", "dropping"}
    /\ IF next[front] = Null
       THEN /\ next' = [next EXCEPT ![front] = Tag]
            /\ tagBy' = "receiver"
            /\ fault' = fault \cup Touch(front)
            /\ rpc' = "dropped"
            /\ UNCHANGED <<freed, front>>
       ELSE /\ freed' = freed \cup {front}
            /\ fault' = fault \cup Touch(front) \cup Free(front)
            /\ IF TagBit(next[front]) = 1
               THEN /\ rpc' = "dropped"
                    /\ UNCHANGED front
               ELSE /\ rpc' = "dropping"
                    /\ front' = next[front]
            /\ UNCHANGED <<next, tagBy>>
    /\ UNCHANGED <<hvars, val, allocated, back, spc, snode, sarg, sres, rval,
                   rres, sent, received, sstart, rstart, rsteps,
                   disconnected>>

(***************************************************************************)
(* Specifications                                                          *)
(***************************************************************************)
vars == <<hvars, cvars>>

Init == HInit /\ CInit

\* The steps of the workers of the reclamation scheme.
HNext ==
    \E w \in Workers :
        \/ \E k \in {"run", "load", "swap"} : CriticalEnter(w, k)
        \/ CriticalExit(w)
        \/ Load(w)
        \/ Swap(w)
        \/ \E a \in Addrs : LaterDropAdd(w, a)
        \/ LaterDropCheck(w)
        \/ TryDeleteLocal(w)
        \/ TryDeleteReturn(w)
        \/ DeleteStep(w)
        \/ DropperReturn(w)
        \/ ThreadExit(w)
        \/ DropSpin(w)

\* The steps of the sender's and the receiver's thread.
CNext ==
    \/ SendAlloc
    \/ SendCas
    \/ SenderDrop
    \/ RecvTake
    \/ RecvLoadSome
    \/ RecvLoadNone
    \/ ReceiverDrop

\* The reclamation scheme alone; the channel is not used.
SpecHazard == Init /\ [][HNext]_vars

\* What the scheduler guarantees to a worker: a call in progress takes its
\* next step. A spinning teardown loads the counter again, delete() goes on,
\* a dropper returns, the atomic access of load and swap and the check of
\* later_drop are made, try_delete_local returns, and the body of a critical
\* section ends. Nothing makes a worker begin a call.
HFairness ==
    \A w \in Workers :
        /\ WF_vars(DropSpin(w))
        /\ WF_vars(DeleteStep(w))
        /\ WF_vars(DropperReturn(w))
        /\ WF_vars(Load(w))
        /\ WF_vars(Swap(w))
        /\ WF_vars(LaterDropCheck(w))
        /\ WF_vars(TryDeleteReturn(w))
        /\ WF_vars(CriticalExit(w))

\* The reclamation scheme under a fair scheduler.
SpecHazardFair == Init /\ [][HNext]_vars /\ HFairness

\* The channel alone; it does not use the reclamation scheme.
SpecChannel == Init /\ [][CNext]_vars

(***************************************************************************)
(* Properties of the reclamation scheme (SpecHazard)                       *)
(***************************************************************************)
\* C2: while the visitor of a HazardPtr::load runs with address p, the dropper
\* of p has not been called: it has not run and is not running. later_drop
\* is only called on an address its caller unlinked, and once (the guard of
\* LaterDropAdd).
C2_LoadVisitorSafe ==
    \A w \in Workers : \A i \in 1 .. Len(stack[w]) :
        stack[w][i] # Null => dcount[stack[w][i]] = 0

\* A visitor runs with an address that another worker has unlinked and
\* scheduled, and that worker's later_drop has returned.
C2_Witness ==
    \E w, v \in Workers : \E i \in 1 .. Len(stack[w]) :
        /\ w # v
        /\ stack[w][i] # Null
        /\ stack[w][i] \in scheduled[v]
        /\ pc[v] = "run"

\* C3: if a worker has a critical section open when another worker calls
\* later_drop(p), the dropper of p is not called before that section has
\* closed: no dropper runs on an address that still has a blocker.
C3_QuiescenceSafety ==
    \A w \in Workers : cur[w] # Null => blockers[cur[w]] = {}

\* An address was scheduled while another worker's section was open, that
\* section is still open, and the scheduling later_drop has returned.
C3_Witness ==
    \E w, v \in Workers : \E a \in Addrs :
        /\ w # v
        /\ w \in blockers[a]
        /\ a \in scheduled[v]
        /\ pc[v] = "run"
        /\ dcount[a] = 0

\* C4 as stated: whenever a dropper is executing, the counter is 0.
C4_CounterZeroWhileDropping ==
    \A w \in Workers : cur[w] # Null => DELETION_STATUS = 0

\* C4, amended: a worker is inside delete() (between or inside droppers)
\* only after its own load of the counter, made before delete() began,
\* returned 0.
C4_DeleteAfterZeroRead ==
    \A w \in Workers : pc[w] \in {"delete", "dropper"} => status[w] = <<0>>

\* A dropper is executing while some worker is inside a critical section.
C4_Witness ==
    \E w \in Workers : cur[w] # Null /\ DELETION_STATUS > 0

\* C5: the dropper of an address scheduled once is called at most once.
C5_NoDoubleDestruction ==
    \A a \in Addrs : dcount[a] <= 1

\* A worker that scheduled an address whose dropper has run is again inside
\* delete(), started by try_delete_local, while a critical section is open.
C5_Witness ==
    \E w \in Workers : \E a \in scheduled[w] :
        /\ dcount[a] = 1
        /\ cur[w] = Null
        /\ pc[w] = "delete"
        /\ op[w] = "try_delete_local"
        /\ DELETION_STATUS > 0

\* C6: when a worker's teardown is over its queue is empty and the dropper of
\* every address it scheduled has been called exactly once; and teardown is
\* inside delete() only after it has read the counter as zero.
C6_TeardownDrainsAll ==
    \A w \in Workers :
        /\ pc[w] = "done" =>
              /\ queue[w] = <<>>
              /\ \A a \in scheduled[w] : dcount[a] = 1
        /\ (op[w] = "drop" /\ pc[w] \in {"delete", "dropper"}) =>
              status[w] = <<0>>

\* A teardown is over for a worker that had scheduled an address, while
\* another worker is inside a critical section.
C6_Witness ==
    \E w \in Workers :
        /\ pc[w] = "done"
        /\ scheduled[w] # {}
        /\ DELETION_STATUS > 0

\* The sum of f over the set S.
RECURSIVE Total(_, _)
Total(f, S) ==
    IF S = {} THEN 0
    ELSE LET x == CHOOSE y \in S : TRUE
         IN  f[x] + Total(f, S \ {x})

\* The critical sections open, over all workers and nesting depths.
OpenSections == Total([w \in Workers |-> Len(stack[w])], Workers)

C13_TryDeleteLocalOutcome ==
    [][\A w \in Workers :
          /\ (pc[w] = "run" /\ pc'[w] = "ret_err") =>
                /\ DELETION_STATUS # 0
                /\ queue' = queue
                /\ dcount' = dcount
                /\ cur' = cur
          /\ (pc[w] = "run" /\ pc'[w] = "delete") => DELETION_STATUS = 0
          /\ (pc[w] # "ret_ok" /\ pc'[w] = "ret_ok") =>
                /\ queue'[w] = <<>>
                /\ \A a \in scheduled[w] : dcount'[a] = 1
          /\ (/\ pc'[w] # pc[w]
              /\ \/ op[w] = "try_delete_local"
                 \/ pc[w] = "run" /\ pc'[w] \in {"delete", "ret_err"}
                 \/ pc[w] \in {"ret_ok", "ret_err"}) =>
                /\ \A v \in Workers \ {w} : queue'[v] = queue[v]
                /\ \/ queue'[w] = queue[w]
                   \/ queue[w] # <<>> /\ queue'[w] = Tail(queue[w])]_vars

\* One worker's try_delete_local is returning Ok(()) after the dropper of an
\* address it scheduled has run, and another's is returning Err(()) with an
\* item left in its queue.
C13_Witness ==
    \E w, v \in Workers :
        /\ pc[w] = "ret_ok"
        /\ scheduled[w] # {}
        /\ pc[v] = "ret_err"
        /\ queue[v] # <<>>

\* C18: later_drop pushes its item at the back of the queue before it loads
\* the counter. A load that is not zero ends the call: no dropper is called
\* and the queue is the old queue with the item at its back. After a zero
\* load delete() takes the items from the front, the oldest first, and when
\* the call returns the queue is empty and the dropper of every address the
\* worker scheduled has been called.
C18_EnqueueBeforeCheck ==
    [][\A w \in Workers :
          /\ (pc[w] = "run" /\ pc'[w] = "check") =>
                /\ \E a \in Addrs : queue'[w] = Append(queue[w], a)
                /\ status'[w] = NoRead
                /\ dcount' = dcount
          /\ pc[w] = "check" =>
                /\ queue'[w] = queue[w]
                /\ queue[w] # <<>>
          /\ (pc[w] = "check" /\ pc'[w] = "run") =>
                /\ DELETION_STATUS # 0
                /\ dcount' = dcount
                /\ cur' = cur
          /\ (pc[w] = "check" /\ pc'[w] = "delete") => DELETION_STATUS = 0
          /\ (op[w] = "later_drop" /\ pc[w] = "delete"
                 /\ pc'[w] = "dropper") =>
                /\ cur'[w] = Head(queue[w])
                /\ queue'[w] = Tail(queue[w])
          /\ (op[w] = "later_drop" /\ pc[w] = "delete" /\ pc'[w] = "run") =>
                /\ queue'[w] = <<>>
                /\ \A a \in scheduled[w] : dcount'[a] = 1]_vars

\* A later_drop that read zero is calling the dropper of the older of two
\* items; the younger one waits in the queue.
C18_Witness ==
    \E w \in Workers :
        /\ op[w] = "later_drop"
        /\ pc[w] = "dropper"
        /\ queue[w] # <<>>

\* C20: under a fair scheduler (SpecHazardFair), in every execution in which
\* the counter is zero from some point on, a teardown that spins leaves its
\* loop.
C20_TeardownLiveness ==
    \A w \in Workers :
        <>[](DELETION_STATUS = 0) => (pc[w] = "spin" ~> pc[w] # "spin")

\* What C20 denies: that under a fair scheduler it is enough for teardown to
\* leave its loop that every critical section closes (the counter is zero
\* again and again). TLC finds the fair execution C20 speaks of: another
\* worker opens a section again before the teardown's next load.
C20_FinitenessSuffices ==
    \A w \in Workers :
        []<>(DELETION_STATUS = 0) => (pc[w] = "spin" ~> pc[w] # "spin")

\* A teardown is in its loop while another worker is inside a critical
\* section.
C20_Witness ==
    \E w, v \in Workers : pc[w] = "spin" /\ stack[v] # <<>>


(***************************************************************************)
(* Properties of the channel (SpecChannel)                                 *)
(***************************************************************************)
IsPrefix(s, t) == Len(s) <= Len(t) /\ \A i \in 1 .. Len(s) : s[i] = t[i]

\* C1: the values returned by recv are, in order, the values whose send
\* returned Ok, none twice and none out of order; and none is lost: a recv
\* that reports NoMessage or NoSender has left no value behind that had been
\* sent when it began, so a receiver polling recv gets every value.
C1_Fifo ==
    /\ IsPrefix(received, sent)
    /\ (rpc = "idle" /\ rres[1] \in {"NoMessage", "NoSender"}) =>
           Len(received) >= rstart.nsent

\* Every send the model makes has returned Ok and every value has been
\* received, with both endpoints alive.
C1_Witness ==
    /\ Len(sent) = MaxSend
    /\ received = sent
    /\ spc = "idle"
    /\ rpc = "idle"

\* C7: a send that began after the receiver's teardown was over returns
\* NoRecv with the value it was given, leaves back where it was and links no
\* node.
C7_SendAfterReceiverGone ==
    [][(spc = "cas" /\ spc' = "idle" /\ sstart) =>
          /\ sres' = <<"NoRecv", sarg>>
          /\ back' = back
          /\ next' = next]_vars

\* A send has returned NoRecv after the receiver went away, on a channel
\* through which values had been sent.
C7_Witness ==
    /\ spc = "idle"
    /\ sstart
    /\ sres = <<"NoRecv", sarg>>
    /\ Len(sent) >= 1

\* C8: a recv that begins when the sender's teardown is over and every value
\* sent has been received returns NoSender.
C8_NoSenderAfterDrain ==
    (/\ rpc = "idle"
     /\ rres # <<"none">>
     /\ rstart.sdone
     /\ rstart.nrecv = rstart.nsent) => rres = <<"NoSender">>

\* Such a recv has returned, on a channel through which a value went.
C8_Witness ==
    /\ rpc = "idle"
    /\ rres = <<"NoSender">>
    /\ rstart.sdone
    /\ rstart.nrecv = rstart.nsent
    /\ Len(received) >= 1

\* C9: recv has returned NoSender only if the sender's teardown wrote the
\* closed tag and every value whose send returned Ok has been received.
C9_NoSenderNotEarly ==
    rres = <<"NoSender">> =>
        /\ tagBy = "sender"
        /\ spc = "dropped"
        /\ received = sent

\* recv has returned NoSender in a call that began while the sender was
\* still there, after values were sent.
C9_Witness ==
    /\ rres = <<"NoSender">>
    /\ ~rstart.sdone
    /\ Len(sent) >= 2

\* The channel is empty but connected during a recv: nothing was pending
\* when it began, and until it returns no send has linked a node and the
\* sender has not gone away.
EmptyConnected ==
    /\ rstart.nsent = rstart.nrecv
    /\ Len(sent) = rstart.nsent
    /\ spc # "dropped"

\* C10: a recv on an empty but connected channel returns NoMessage and leaves
\* front, the links, the payloads and the set of freed nodes as they were
\* when it began; and a recv that begins when a sent value has not been
\* received returns that value.
C10_EmptyButConnected ==
    [][(rpc \in {"some", "none"} /\ rpc' = "idle") =>
          /\ EmptyConnected =>
                /\ rres' = <<"NoMessage">>
                /\ front' = rstart.front
                /\ next' = rstart.next
                /\ freed' = rstart.freed
                /\ \A n \in rstart.allocated : val'[n] = rstart.val[n]
          /\ rstart.nsent > rstart.nrecv =>
                rres' = <<"Ok", sent[rstart.nrecv + 1]>>]_vars

\* recv has returned NoMessage on an empty but connected channel through
\* which values went before.
C10_Witness ==
    /\ rpc = "idle"
    /\ rres = <<"NoMessage">>
    /\ EmptyConnected
    /\ rstart.nsent >= 1

\* C11: under every interleaving of send, recv and the two teardowns, no
\* endpoint reads or writes a node that has been freed and no node is freed
\* twice.
C11_ChannelMemorySafety ==
    fault = {}

\* The receiver's teardown is walking the chain, having freed a node, while
\* a send is between its allocation and its compare_and_swap.
C11_Witness ==
    /\ rpc = "dropping"
    /\ spc = "cas"
    /\ freed # {}

\* C14: a recv returns after at most four steps of its own (two turns of its
\* loop), whatever the sender does in between; inside the call the
\* receiver's next step never waits for the sender; and the loop only moves
\* on to a node that holds a payload, which ends the call in the next turn.
C14_RecvNonBlocking ==
    /\ rsteps <= 4
    /\ rpc \in {"loop", "some", "none"} =>
           ENABLED (RecvTake \/ RecvLoadSome \/ RecvLoadNone)
    /\ rpc = "loop" => val[front] # <<>>

\* A recv took two turns of its loop and returned a value while a send is in
\* progress.
C14_Witness ==
    /\ rsteps = 4
    /\ rpc = "idle"
    /\ rres[1] = "Ok"
    /\ spc = "cas"

\* C15: once a recv has returned NoSender every later recv returns NoSender,
\* and once a send has returned NoRecv every later send returns NoRecv.
C15_DisconnectionTerminal ==
    /\ disconnected.recv => rres \in {<<"none">>, <<"NoSender">>}
    /\ disconnected.send => sres[1] \in {"none", "NoRecv"}

\* A recv made after a recv that returned NoSender has returned NoSender.
C15_Witness ==
    /\ disconnected.recv
    /\ rpc = "idle"
    /\ rres = <<"NoSender">>

\* C16 as stated: the sender's teardown frees no node, whether its
\* compare_and_swap succeeds or fails.
C16_SenderDropFreesNothing ==
    [][(spc = "idle" /\ spc' = "dropped") => freed' = freed]_vars

\* C16, amended: the sender's teardown frees no node when its
\* compare_and_swap replaces a null link by the closed tag; when the
\* compare_and_swap fails, the link holds the closed tag of the receiver and
\* the teardown frees the node at back, which was not freed before, and no
\* other node.
C16_SenderDropFreesOnFailure ==
    [][(spc = "idle" /\ spc' = "dropped") =>
          IF next[back] = Null
          THEN /\ freed' = freed
               /\ next' = [next EXCEPT ![back] = Tag]
          ELSE /\ next[back] = Tag
               /\ tagBy = "receiver"
               /\ back \notin freed
               /\ freed' = freed \cup {back}
               /\ next' = next]_vars

\* The sender's teardown found the receiver's tag and freed the node at
\* back.
C16_Witness ==
    /\ spc = "dropped"
    /\ tagBy = "receiver"
    /\ back \in freed

\* C17: once both endpoints have been dropped, every node ever allocated
\* (the sentinel, the linked nodes, the nodes of the sends that failed) has
\* been freed, and none twice.
C17_NoLeakAfterShutdown ==
    (spc = "dropped" /\ rpc = "dropped") =>
        /\ freed = allocated
        /\ "double_free" \notin fault

\* Both endpoints are gone, the receiver first: values went through, a send
\* failed, and the sender's teardown found the receiver's tag.
C17_Witness ==
    /\ spc = "dropped"
    /\ rpc = "dropped"
    /\ tagBy = "receiver"
    /\ sres[1] = "NoRecv"
    /\ Len(sent) >= 1

\* C19: the link of a node is written at most once: from null to a node, by
\* send's compare_and_swap only, or from null to the closed tag, by a
\* teardown only. So a link that send's compare_and_swap finds not null
\* holds the closed tag of the receiver, never a node.
C19_LinkDiscipline ==
    [][/\ \A n \in Nodes : next'[n] # next[n] =>
              /\ next[n] = Null
              /\ \/ /\ next'[n] \in Nodes
                    /\ spc = "cas" /\ spc' = "idle"
                 \/ /\ next'[n] = Tag
                    /\ \/ spc = "idle" /\ spc' = "dropped"
                       \/ rpc # "dropped" /\ rpc' = "dropped"
       /\ (spc = "cas" /\ spc' = "idle" /\ next[back] # Null) =>
              /\ next[back] = Tag
              /\ tagBy = "receiver"]_vars

\* A send that began before the receiver's teardown was over found the
\* closed tag on the link, after values had been sent.
C19_Witness ==
    /\ spc = "idle"
    /\ ~sstart
    /\ sres[1] = "NoRecv"
    /\ next[back] = Tag
    /\ Len(sent) >= 1

====
